---- MODULE Spec2Model ----
(***************************************************************************)
(* Translation of Gateway-API HTTPRoute objects into APISIX routes and     *)
(* upstreams (pkg/providers/gateway/translation/gateway_httproute.go).     *)
(*                                                                         *)
(* Conventions.  A Go pointer or optional field is a sequence of length    *)
(* at most one: <<>> is nil and <<v>> points to v.  A Go string is a TLA+  *)
(* string, "" being the empty string; a nil error is "".  A Go map is a    *)
(* function whose DOMAIN is the set of keys; the empty map is <<>>.  Go    *)
(* slices are sequences; Go indices start at 0, so element k of a slice is *)
(* element k + 1 of the sequence.                                          *)
(***************************************************************************)
EXTENDS Integers, Sequences, FiniteSets, TLC

VARIABLES
    httpRoute,          \* the HTTPRoute handed to the translator
    failing,            \* service names for which the resolver returns an error
    pc,                 \* position in TranslateGatewayHTTPRouteV1Alpha2
    ctx,                \* the TranslateContext of the running call
    hosts,              \* local: hosts
    i,                  \* local: index of the rule being translated (0-based)
    j,                  \* local: index of the backend or match in hand (0-based)
    ruleUpstreams,      \* local: upstreams resolved for the current rule
    weightedUpstreams,  \* local: weighted list for the current rule
    matches,            \* local: matches of the current rule (after defaulting)
    plugins,            \* local: plugin map shared by the routes of the rule
    trace,              \* resolver calls and match compilations of the call
    calls,              \* the HTTPRoute each call was handed
    results,            \* what each finished call returned
    arg,                \* input of a compiler run on its own
    out                 \* its output

vars == <<httpRoute, failing, pc, ctx, hosts, i, j, ruleUpstreams,
          weightedUpstreams, matches, plugins, trace, calls, results, arg,
          out>>

-----------------------------------------------------------------------------
(* Optional values and maps *)

Nil == <<>>

Some(v) == <<v>>

IsNil(p) == p = <<>>

Deref(p) == p[1]

EmptyMap == <<>>

\* m[k] = v for a Go map m
MapSet(m, k, v) == [x \in (DOMAIN m) \cup {k} |-> IF x = k THEN v ELSE m[x]]

HasKey(m, k) == k \in DOMAIN m

Range(s) == {s[k] : k \in DOMAIN s}

-----------------------------------------------------------------------------
(* Strings whose characters the code looks at.  strings.ToLower works on   *)
(* the runes of a string, so a string that is folded to lower case (the    *)
(* Kind of a backend reference, the Name of a header or query matcher) and *)
(* the variable name built from it are the sequence of their runes, each a *)
(* Unicode code point.  The strings the code only copies or compares are   *)
(* TLA+ strings.  The strings are valid UTF-8, as the API server delivers  *)
(* them.                                                                   *)

\* the printable ASCII characters from U+0020 to U+005F, in code point order
ASCIIBelowGrave ==
    " !\"#$%&'()*+,-./0123456789:;<=>?@ABCDEFGHIJKLMNOPQRSTUVWXYZ[\\]^_"

\* and those from U+0061 to U+007E
ASCIIAboveGrave == "abcdefghijklmnopqrstuvwxyz{|}~"

\* the code point of each of them
ASCIIRunes ==
    [c \in {SubSeq(ASCIIBelowGrave, n, n) : n \in 1..Len(ASCIIBelowGrave)}
           \cup {SubSeq(ASCIIAboveGrave, n, n) : n \in 1..Len(ASCIIAboveGrave)} |->
        IF \E n \in 1..Len(ASCIIBelowGrave) : SubSeq(ASCIIBelowGrave, n, n) = c
        THEN 31 + (CHOOSE n \in 1..Len(ASCIIBelowGrave) :
                       SubSeq(ASCIIBelowGrave, n, n) = c)
        ELSE 96 + (CHOOSE n \in 1..Len(ASCIIAboveGrave) :
                       SubSeq(ASCIIAboveGrave, n, n) = c)]

\* []rune(s) for a literal s of printable ASCII characters
Runes(s) == [k \in 1..Len(s) |-> ASCIIRunes[SubSeq(s, k, k)]]

\* The code points above U+007F that unicode.ToLower moves, as the case
\* ranges <<Lo, Hi, stride, delta>>: every stride-th code point from Lo to Hi
\* goes to itself plus delta.  These are the simple lower-case mappings of
\* the Unicode character database (14.0 and 15.0 agree on them), with
\* U+0130 sent to U+0069 as unicode.CaseRanges has it.
LowerCaseRanges ==
    <<<<192, 214, 1, 32>>, <<216, 222, 1, 32>>, <<256, 302, 2, 1>>,
      <<304, 304, 1, -199>>, <<306, 310, 2, 1>>, <<313, 327, 2, 1>>,
      <<330, 374, 2, 1>>, <<376, 376, 1, -121>>, <<377, 381, 2, 1>>,
      <<385, 385, 1, 210>>, <<386, 388, 2, 1>>, <<390, 390, 1, 206>>,
      <<391, 391, 1, 1>>, <<393, 394, 1, 205>>, <<395, 395, 1, 1>>,
      <<398, 398, 1, 79>>, <<399, 399, 1, 202>>, <<400, 400, 1, 203>>,
      <<401, 401, 1, 1>>, <<403, 403, 1, 205>>, <<404, 404, 1, 207>>,
      <<406, 406, 1, 211>>, <<407, 407, 1, 209>>, <<408, 408, 1, 1>>,
      <<412, 412, 1, 211>>, <<413, 413, 1, 213>>, <<415, 415, 1, 214>>,
      <<416, 420, 2, 1>>, <<422, 422, 1, 218>>, <<423, 423, 1, 1>>,
      <<425, 425, 1, 218>>, <<428, 428, 1, 1>>, <<430, 430, 1, 218>>,
      <<431, 431, 1, 1>>, <<433, 434, 1, 217>>, <<435, 437, 2, 1>>,
      <<439, 439, 1, 219>>, <<440, 440, 1, 1>>, <<444, 444, 1, 1>>,
      <<452, 452, 1, 2>>, <<453, 453, 1, 1>>, <<455, 455, 1, 2>>,
      <<456, 456, 1, 1>>, <<458, 458, 1, 2>>, <<459, 475, 2, 1>>,
      <<478, 494, 2, 1>>, <<497, 497, 1, 2>>, <<498, 500, 2, 1>>,
      <<502, 502, 1, -97>>, <<503, 503, 1, -56>>, <<504, 542, 2, 1>>,
      <<544, 544, 1, -130>>, <<546, 562, 2, 1>>, <<570, 570, 1, 10795>>,
      <<571, 571, 1, 1>>, <<573, 573, 1, -163>>, <<574, 574, 1, 10792>>,
      <<577, 577, 1, 1>>, <<579, 579, 1, -195>>, <<580, 580, 1, 69>>,
      <<581, 581, 1, 71>>, <<582, 590, 2, 1>>, <<880, 882, 2, 1>>,
      <<886, 886, 1, 1>>, <<895, 895, 1, 116>>, <<902, 902, 1, 38>>,
      <<904, 906, 1, 37>>, <<908, 908, 1, 64>>, <<910, 911, 1, 63>>,
      <<913, 929, 1, 32>>, <<931, 939, 1, 32>>, <<975, 975, 1, 8>>,
      <<984, 1006, 2, 1>>, <<1012, 1012, 1, -60>>, <<1015, 1015, 1, 1>>,
      <<1017, 1017, 1, -7>>, <<1018, 1018, 1, 1>>, <<1021, 1023, 1, -130>>,
      <<1024, 1039, 1, 80>>, <<1040, 1071, 1, 32>>, <<1120, 1152, 2, 1>>,
      <<1162, 1214, 2, 1>>, <<1216, 1216, 1, 15>>, <<1217, 1229, 2, 1>>,
      <<1232, 1326, 2, 1>>, <<1329, 1366, 1, 48>>, <<4256, 4293, 1, 7264>>,
      <<4295, 4295, 1, 7264>>, <<4301, 4301, 1, 7264>>,
      <<5024, 5103, 1, 38864>>, <<5104, 5109, 1, 8>>,
      <<7312, 7354, 1, -3008>>, <<7357, 7359, 1, -3008>>,
      <<7680, 7828, 2, 1>>, <<7838, 7838, 1, -7615>>, <<7840, 7934, 2, 1>>,
      <<7944, 7951, 1, -8>>, <<7960, 7965, 1, -8>>, <<7976, 7983, 1, -8>>,
      <<7992, 7999, 1, -8>>, <<8008, 8013, 1, -8>>, <<8025, 8031, 2, -8>>,
      <<8040, 8047, 1, -8>>, <<8072, 8079, 1, -8>>, <<8088, 8095, 1, -8>>,
      <<8104, 8111, 1, -8>>, <<8120, 8121, 1, -8>>, <<8122, 8123, 1, -74>>,
      <<8124, 8124, 1, -9>>, <<8136, 8139, 1, -86>>, <<8140, 8140, 1, -9>>,
      <<8152, 8153, 1, -8>>, <<8154, 8155, 1, -100>>, <<8168, 8169, 1, -8>>,
      <<8170, 8171, 1, -112>>, <<8172, 8172, 1, -7>>,
      <<8184, 8185, 1, -128>>, <<8186, 8187, 1, -126>>,
      <<8188, 8188, 1, -9>>, <<8486, 8486, 1, -7517>>,
      <<8490, 8490, 1, -8383>>, <<8491, 8491, 1, -8262>>,
      <<8498, 8498, 1, 28>>, <<8544, 8559, 1, 16>>, <<8579, 8579, 1, 1>>,
      <<9398, 9423, 1, 26>>, <<11264, 11311, 1, 48>>, <<11360, 11360, 1, 1>>,
      <<11362, 11362, 1, -10743>>, <<11363, 11363, 1, -3814>>,
      <<11364, 11364, 1, -10727>>, <<11367, 11371, 2, 1>>,
      <<11373, 11373, 1, -10780>>, <<11374, 11374, 1, -10749>>,
      <<11375, 11375, 1, -10783>>, <<11376, 11376, 1, -10782>>,
      <<11378, 11378, 1, 1>>, <<11381, 11381, 1, 1>>,
      <<11390, 11391, 1, -10815>>, <<11392, 11490, 2, 1>>,
      <<11499, 11501, 2, 1>>, <<11506, 11506, 1, 1>>, <<42560, 42604, 2, 1>>,
      <<42624, 42650, 2, 1>>, <<42786, 42798, 2, 1>>, <<42802, 42862, 2, 1>>,
      <<42873, 42875, 2, 1>>, <<42877, 42877, 1, -35332>>,
      <<42878, 42886, 2, 1>>, <<42891, 42891, 1, 1>>,
      <<42893, 42893, 1, -42280>>, <<42896, 42898, 2, 1>>,
      <<42902, 42920, 2, 1>>, <<42922, 42922, 1, -42308>>,
      <<42923, 42923, 1, -42319>>, <<42924, 42924, 1, -42315>>,
      <<42925, 42925, 1, -42305>>, <<42926, 42926, 1, -42308>>,
      <<42928, 42928, 1, -42258>>, <<42929, 42929, 1, -42282>>,
      <<42930, 42930, 1, -42261>>, <<42931, 42931, 1, 928>>,
      <<42932, 42946, 2, 1>>, <<42948, 42948, 1, -48>>,
      <<42949, 42949, 1, -42307>>, <<42950, 42950, 1, -35384>>,
      <<42951, 42953, 2, 1>>, <<42960, 42960, 1, 1>>, <<42966, 42968, 2, 1>>,
      <<42997, 42997, 1, 1>>, <<65313, 65338, 1, 32>>,
      <<66560, 66599, 1, 40>>, <<66736, 66771, 1, 40>>,
      <<66928, 66938, 1, 39>>, <<66940, 66954, 1, 39>>,
      <<66956, 66962, 1, 39>>, <<66964, 66965, 1, 39>>,
      <<68736, 68786, 1, 64>>, <<71840, 71871, 1, 32>>,
      <<93760, 93791, 1, 32>>, <<125184, 125217, 1, 34>>>>

\* unicode.ToLower(r)
ToLowerRune(r) ==
    IF r < 128
    THEN IF 65 <= r /\ r <= 90 THEN r + 32 ELSE r
    ELSE LET hit == {k \in DOMAIN LowerCaseRanges :
                        /\ LowerCaseRanges[k][1] <= r
                        /\ r <= LowerCaseRanges[k][2]
                        /\ (r - LowerCaseRanges[k][1]) % LowerCaseRanges[k][3] = 0}
         IN  IF hit = {} THEN r
             ELSE r + LowerCaseRanges[CHOOSE k \in hit : TRUE][4]

\* strings.ToLower(s): unicode.ToLower mapped over the runes of s
ToLower(s) == [k \in DOMAIN s |-> ToLowerRune(s[k])]

\* strings.ReplaceAll(s, old, new) for a one-rune old
RECURSIVE ReplaceAll(_, _, _)
ReplaceAll(s, old, new) ==
    IF s = <<>> THEN <<>>
    ELSE (IF <<Head(s)>> = old THEN new ELSE <<Head(s)>>)
             \o ReplaceAll(Tail(s), old, new)

-----------------------------------------------------------------------------
(* Match compilation: translateGatewayHTTPRouteMatch *)

NewDefaultRoute ==
    [ID |-> "", Uri |-> "", Hosts |-> <<>>, Vars |-> <<>>, Methods |-> <<>>,
     Plugins |-> EmptyMap, UpstreamId |-> ""]

\* the switch on *match.Path.Type
CompilePathLenient(route, match) ==
    IF IsNil(match.Path) THEN [route |-> route, err |-> ""]
    ELSE LET path == Deref(match.Path)
         IN  CASE path.Type = "Exact" ->
                    [route |-> [route EXCEPT !.Uri = path.Value], err |-> ""]
               [] path.Type = "PathPrefix" ->
                    [route |-> [route EXCEPT !.Uri = path.Value \o "*"], err |-> ""]
               [] path.Type = "RegularExpression" ->
                    [route |-> [route EXCEPT
                                  !.Vars = Append(@, <<Runes("uri"), "~~",
                                                       path.Value>>)],
                     err |-> ""]
               [] OTHER -> [route |-> route, err |-> ""]

CompilePath(route, match) ==
    IF IsNil(match.Path) THEN [route |-> route, err |-> ""]
    ELSE LET path == Deref(match.Path)
         IN  CASE path.Type = "Exact" ->
                    [route |-> [route EXCEPT !.Uri = path.Value], err |-> ""]
               [] path.Type = "PathPrefix" ->
                    [route |-> [route EXCEPT !.Uri = path.Value \o "*"], err |-> ""]
               [] path.Type = "RegularExpression" ->
                    [route |-> [route EXCEPT
                                  !.Vars = Append(@, <<Runes("uri"), "~~",
                                                       path.Value>>)],
                     err |-> ""]
               [] OTHER ->
                    [route |-> route,
                     err |-> "unknown path match type " \o path.Type]

\* the loop over match.Headers
RECURSIVE CompileHeaders(_, _)
CompileHeaders(route, headers) ==
    IF headers = <<>> THEN [route |-> route, err |-> ""]
    ELSE LET header == Head(headers)
             name   == ReplaceAll(ToLower(header.Name),
                                  Runes("-"), Runes("_"))
             this   == <<Runes("http_") \o name>>
         IN  CASE header.Type = "Exact" ->
                    CompileHeaders(
                        [route EXCEPT !.Vars =
                            Append(@, Append(Append(this, "=="), header.Value))],
                        Tail(headers))
               [] header.Type = "RegularExpression" ->
                    CompileHeaders(
                        [route EXCEPT !.Vars =
                            Append(@, Append(Append(this, "~~"), header.Value))],
                        Tail(headers))
               [] OTHER ->
                    [route |-> route,
                     err |-> "unknown header match type " \o header.Type]

\* the loop over match.QueryParams
RECURSIVE CompileQueryParams(_, _)
CompileQueryParams(route, queryParams) ==
    IF queryParams = <<>> THEN [route |-> route, err |-> ""]
    ELSE LET query == Head(queryParams)
             this  == <<Runes("arg_") \o ToLower(query.Name)>>
         IN  CASE query.Type = "Exact" ->
                    CompileQueryParams(
                        [route EXCEPT !.Vars =
                            Append(@, Append(Append(this, "=="), query.Value))],
                        Tail(queryParams))
               [] query.Type = "RegularExpression" ->
                    CompileQueryParams(
                        [route EXCEPT !.Vars =
                            Append(@, Append(Append(this, "~~"), query.Value))],
                        Tail(queryParams))
               [] OTHER ->
                    [route |-> route,
                     err |-> "unknown query match type " \o query.Type]

CompileMethod(route, match) ==
    IF IsNil(match.Method) THEN route
    ELSE [route EXCEPT !.Methods = <<Deref(match.Method)>>]

\* a compilation that appends the query conditions before the header ones
translateMatchQueryFirst(match) ==
    LET p == CompilePath(NewDefaultRoute, match)
    IN  IF p.err # "" THEN [route |-> Nil, err |-> p.err]
        ELSE LET q == CompileQueryParams(p.route, match.QueryParams)
             IN  IF q.err # "" THEN [route |-> Nil, err |-> q.err]
                 ELSE LET h == CompileHeaders(q.route, match.Headers)
                      IN  IF h.err # "" THEN [route |-> Nil, err |-> h.err]
                          ELSE [route |-> Some(CompileMethod(h.route, match)),
                                err |-> ""]

translateGatewayHTTPRouteMatch(match) ==
    LET p == CompilePath(NewDefaultRoute, match)
    IN  IF p.err # "" THEN [route |-> Nil, err |-> p.err]
        ELSE LET h == CompileHeaders(p.route, match.Headers)
             IN  IF h.err # "" THEN [route |-> Nil, err |-> h.err]
                 ELSE LET q == CompileQueryParams(h.route, match.QueryParams)
                      IN  IF q.err # "" THEN [route |-> Nil, err |-> q.err]
                          ELSE [route |-> Some(CompileMethod(q.route, match)),
                                err |-> ""]

-----------------------------------------------------------------------------
(* Filter compilation: generatePluginsFromHTTPRouteFilter *)

\* for _, header := range entries { headers[header.Name] = header.Value }
RECURSIVE PutHeaders(_, _)
PutHeaders(headers, entries) ==
    IF entries = <<>> THEN headers
    ELSE PutHeaders(MapSet(headers, Head(entries).Name, Head(entries).Value),
                    Tail(entries))

\* for _, header := range names { headers[header] = "" }
RECURSIVE BlankHeaders(_, _)
BlankHeaders(headers, names) ==
    IF names = <<>> THEN headers
    ELSE BlankHeaders(MapSet(headers, Head(names), ""), Tail(names))

\* a modifier that applies the Set entries before the Add entries
headerFilterSetBeforeAdd(pl, reqHeaderModifier) ==
    IF IsNil(reqHeaderModifier) THEN pl
    ELSE LET m  == Deref(reqHeaderModifier)
             h1 == PutHeaders(EmptyMap, m.Set)
             h2 == PutHeaders(h1, m.Add)
             h3 == BlankHeaders(h2, m.Remove)
         IN  MapSet(pl, "proxy-rewrite", [Headers |-> h3])

generatePluginFromHTTPRequestHeaderFilter(pl, reqHeaderModifier) ==
    IF IsNil(reqHeaderModifier) THEN pl
    ELSE LET m  == Deref(reqHeaderModifier)
             h1 == PutHeaders(EmptyMap, m.Add)
             h2 == PutHeaders(h1, m.Set)
             h3 == BlankHeaders(h2, m.Remove)
         IN  MapSet(pl, "proxy-rewrite", [Headers |-> h3])

DefaultRedirectCode == 302

generatePluginFromHTTPRequestRedirectFilter(pl, reqRedirect) ==
    IF IsNil(reqRedirect) THEN pl
    ELSE LET r        == Deref(reqRedirect)
             code     == IF IsNil(r.StatusCode) THEN DefaultRedirectCode
                         ELSE Deref(r.StatusCode)
             hostname == IF IsNil(r.Hostname) THEN "$host" ELSE Deref(r.Hostname)
             scheme   == IF IsNil(r.Scheme) THEN "$scheme" ELSE Deref(r.Scheme)
             uri      == IF IsNil(r.Port)
                         THEN scheme \o "://" \o hostname \o "$request_uri"
                         ELSE scheme \o "://" \o hostname \o ":"
                                 \o ToString(Deref(r.Port)) \o "$request_uri"
         IN  MapSet(pl, "redirect", [RetCode |-> code, URI |-> uri])

RECURSIVE ApplyFilters(_, _)
ApplyFilters(pl, filters) ==
    IF filters = <<>> THEN pl
    ELSE LET filter == Head(filters)
             next   ==
                 CASE filter.Type = "RequestHeaderModifier" ->
                        generatePluginFromHTTPRequestHeaderFilter(
                            pl, filter.RequestHeaderModifier)
                   [] filter.Type = "RequestRedirect" ->
                        generatePluginFromHTTPRequestRedirectFilter(
                            pl, filter.RequestRedirect)
                   [] OTHER -> pl
         IN  ApplyFilters(next, Tail(filters))

generatePluginsFromHTTPRouteFilter(filters) == ApplyFilters(EmptyMap, filters)

-----------------------------------------------------------------------------
(* Collaborators of the translator that live in other packages *)

\* types.ResolveGranularity.Endpoint
GranularityEndpoint == "endpoint"

\* apisixv1.ComposeUpstreamName
ComposeUpstreamName(ns, name, subset, port, granularity) ==
    ns \o "_" \o name \o "_"
       \o (IF subset = "" THEN "" ELSE subset \o "_")
       \o ToString(port)
       \o (IF granularity = "service" THEN "_service" ELSE "")

\* apisixv1.ComposeRouteName
ComposeRouteName(ns, name, rule) == ns \o "_" \o name \o "_" \o rule

\* id.GenID: a deterministic, collision-resistant hash of the composite name
GenID(raw) == "id:" \o raw

LabelValueLimit == 64

\* utils.TruncateString
TruncateString(s, n) == IF Len(s) > n THEN SubSeq(s, 1, n) ELSE s

\* errors.Wrap(err, msg)
Wrap(err, msg) == msg \o ": " \o err

\* t.KubeTranslator.TranslateService: the Service -> Upstream resolver.  It
\* answers by service name: an error for the names in `failing`, and a fresh
\* upstream otherwise.
TranslateService(ns, name, subset, port) ==
    IF name \in failing
    THEN [ups |-> Nil, err |-> "service " \o ns \o "/" \o name \o " not found"]
    ELSE [ups |-> Some([Name   |-> ComposeUpstreamName(ns, name, subset, port,
                                                       GranularityEndpoint),
                        ID     |-> "",
                        Labels |-> EmptyMap]),
          err |-> ""]

\* translation.DefaultEmptyTranslateContext
DefaultEmptyTranslateContext == [Routes |-> <<>>, Upstreams |-> <<>>]

\* add-or-replace by identifier
Upsert(objs, obj) ==
    IF \E k \in DOMAIN objs : objs[k].ID = obj.ID
    THEN [k \in DOMAIN objs |-> IF objs[k].ID = obj.ID THEN obj ELSE objs[k]]
    ELSE Append(objs, obj)

\* TranslateContext.AddUpstream
AddUpstream(c, ups) == [c EXCEPT !.Upstreams = Upsert(@, ups)]

\* TranslateContext.AddRoute
AddRoute(c, route) == [c EXCEPT !.Routes = Upsert(@, route)]

-----------------------------------------------------------------------------
(* Pieces of TranslateGatewayHTTPRouteV1Alpha2 *)

\* var hosts []string; for _, hostname := range ... { hosts = append(...) }
CollectHosts(hostnames) == [k \in 1..Len(hostnames) |-> hostnames[k]]

\* a kind test that takes every reference for a service
BackendKindAny(backend) == Runes("service")

BackendKind(backend) ==
    IF IsNil(backend.Kind) THEN Runes("service") ELSE ToLower(Deref(backend.Kind))

BackendNamespace(backend) ==
    IF IsNil(backend.Namespace) THEN httpRoute.Namespace
    ELSE Deref(backend.Namespace)

\* the upstream as it stands after the labels and the identifier are set
LabelledUpstream(ups, ns, backend) ==
    LET port == Deref(backend.Port)
        name == ComposeUpstreamName(ns, backend.Name, "", port, GranularityEndpoint)
        l1   == MapSet(ups.Labels, "meta_namespace",
                       TruncateString(ns, LabelValueLimit))
        l2   == MapSet(l1, "meta_backend",
                       TruncateString(backend.Name, LabelValueLimit))
        l3   == MapSet(l2, "meta_port", ToString(port))
    IN  [ups EXCEPT !.Labels = l3, !.ID = GenID(name)]

\* a weighted entry that defaults the weight to 0
WeightedUpstreamZeroDefault(ups, backend) ==
    IF IsNil(backend.Weight)
    THEN [UpstreamID |-> ups.ID, Weight |-> 0]
    ELSE [UpstreamID |-> ups.ID, Weight |-> Deref(backend.Weight)]

\* a weighted entry that refers to the upstream by name
WeightedUpstreamByName(ups, backend) ==
    IF IsNil(backend.Weight)
    THEN [UpstreamID |-> ups.Name, Weight |-> 1]
    ELSE [UpstreamID |-> ups.Name, Weight |-> Deref(backend.Weight)]

WeightedUpstream(ups, backend) ==
    IF IsNil(backend.Weight)
    THEN [UpstreamID |-> ups.ID, Weight |-> 1]
    ELSE [UpstreamID |-> ups.ID, Weight |-> Deref(backend.Weight)]

\* a rule is never given up
NoRuleGivenUp(ups) == FALSE

\* if len(ruleUpstreams) == 0 { continue }
AllBackendsFailed(ups) == Len(ups) = 0

\* a default match on the bare "/"
DefaultMatchesExact ==
    <<[Path        |-> Some([Type |-> "Exact", Value |-> "/"]),
       Headers     |-> <<>>,
       QueryParams |-> <<>>,
       Method      |-> Nil]>>

DefaultMatches ==
    <<[Path        |-> Some([Type |-> "PathPrefix", Value |-> "/"]),
       Headers     |-> <<>>,
       QueryParams |-> <<>>,
       Method      |-> Nil]>>

MatchesOf(rule) ==
    IF Len(rule.Matches) = 0 THEN DefaultMatches ELSE rule.Matches

\* a binding that always sets the direct identifier as well
BindUpstreamBoth(route, ups, weighted) ==
    IF Len(ups) = 0 THEN route
    ELSE IF Len(ups) = 1 THEN [route EXCEPT !.UpstreamId = ups[1].ID]
    ELSE [route EXCEPT
            !.UpstreamId = ups[1].ID,
            !.Plugins = MapSet(@, "traffic-split",
                               [Rules |-> <<[WeightedUpstreams |-> weighted]>>])]

\* // Bind Upstream
BindUpstream(route, ups, weighted) ==
    IF Len(ups) = 1 THEN [route EXCEPT !.UpstreamId = ups[1].ID]
    ELSE IF Len(ups) > 0
    THEN [route EXCEPT
            !.Plugins = MapSet(@, "traffic-split",
                               [Rules |-> <<[WeightedUpstreams |-> weighted]>>])]
    ELSE route

\* a failure that hands the context built so far to the caller
ReturnPartial(err, msg) == [ctx |-> Some(ctx), err |-> Wrap(err, msg)]

\* return nil, errors.Wrap(err, msg)
ReturnError(err, msg) == [ctx |-> Nil, err |-> Wrap(err, msg)]

\* return ctx, nil
ReturnContext == [ctx |-> Some(ctx), err |-> ""]

-----------------------------------------------------------------------------
(* The inputs the translator is run on.  The API server defaults the Type  *)
(* of every path, header and query matcher and the Value of a path, so the *)
(* pointers the compiler dereferences without a test are never nil here.   *)

\* rules + backend references + matches + filters of one HTTPRoute
MaxRefs == 5

\* header matchers, and query matchers, of a match compiled on its own
MaxMatchers == 2

\* filters of a filter list compiled on its own
MaxFilters == 2

SeqsOfLen(S, n) == [1..n -> S]

SeqsUpTo(S, n) == UNION {SeqsOfLen(S, k) : k \in 0..n}

RefA ==
    [Kind |-> Nil, Namespace |-> Nil, Name |-> "svc-a",
     Port |-> Some(80), Weight |-> Nil]

RefB ==
    [Kind |-> Some(Runes("Service")), Namespace |-> Some("other"),
     Name |-> "svc-b",
     Port |-> Some(8080), Weight |-> Some(3)]

RefPod ==
    [Kind |-> Some(Runes("Pod")), Namespace |-> Nil, Name |-> "svc-a",
     Port |-> Some(80), Weight |-> Some(2)]

RefNoPort ==
    [Kind |-> Nil, Namespace |-> Nil, Name |-> "svc-a",
     Port |-> Nil, Weight |-> Nil]

BackendRefChoices == {RefA, RefB, RefPod, RefNoPort}

MatchGood ==
    [Path        |-> Some([Type |-> "RegularExpression", Value |-> "/v[0-9]+"]),
     Headers     |-> <<[Type |-> "Exact", Name |-> Runes("X-Foo"),
                        Value |-> "bar"]>>,
     QueryParams |-> <<[Type |-> "RegularExpression", Name |-> Runes("Id"),
                        Value |-> "[0-9]+"]>>,
     Method      |-> Some("GET")]

MatchBadPath ==
    [Path        |-> Some([Type |-> "ImplementationSpecific", Value |-> "/x"]),
     Headers     |-> <<>>,
     QueryParams |-> <<>>,
     Method      |-> Nil]

MatchBadHeader ==
    [Path        |-> Some([Type |-> "Exact", Value |-> "/x"]),
     Headers     |-> <<[Type |-> "ImplementationSpecific",
                        Name |-> Runes("X-Foo"),
                        Value |-> "bar"]>>,
     QueryParams |-> <<>>,
     Method      |-> Nil]

MatchBadQuery ==
    [Path        |-> Nil,
     Headers     |-> <<>>,
     QueryParams |-> <<[Type |-> "ImplementationSpecific",
                        Name |-> Runes("Id"),
                        Value |-> "7"]>>,
     Method      |-> Nil]

MatchChoices == {MatchGood, MatchBadPath, MatchBadHeader, MatchBadQuery}

FilterEnv ==
    [Type                  |-> "RequestHeaderModifier",
     RequestHeaderModifier |-> Some([Add    |-> <<[Name |-> "X-Env", Value |-> "prod"]>>,
                                     Set    |-> <<>>,
                                     Remove |-> <<>>]),
     RequestRedirect       |-> Nil]

RuleFilterChoices == {FilterEnv}

\* the rules made of s - 1 backend references, matches and filters
RulesOfSize(s) ==
    UNION {
        UNION {
            {[Matches |-> m, Filters |-> f, BackendRefs |-> b] :
                b \in SeqsOfLen(BackendRefChoices, nb),
                m \in SeqsOfLen(MatchChoices, nm),
                f \in SeqsOfLen(RuleFilterChoices, s - 1 - nb - nm)}
            : nm \in 0..(s - 1 - nb)}
        : nb \in 0..(s - 1)}

RECURSIVE RuleLists(_)
RuleLists(n) ==
    {<<>>} \cup
    UNION {{<<r>> \o rest : r \in RulesOfSize(s), rest \in RuleLists(n - s)} :
           s \in 1..n}

Hostnames == <<"foo.com", "bar.com">>

HTTPRouteOf(rules) ==
    [Namespace |-> "default", Name |-> "route",
     Spec      |-> [Hostnames |-> Hostnames, Rules |-> rules]]

HTTPRouteChoices == {HTTPRouteOf(rules) : rules \in RuleLists(MaxRefs)}

FailingChoices == SUBSET {"svc-a", "svc-b"}

\* another HTTPRoute, of another namespace; its second backend reference is
\* to a service that the HTTPRoutes above refer to as well
OtherRoute ==
    [Namespace |-> "other", Name |-> "route-b",
     Spec      |-> [Hostnames |-> <<"baz.com">>,
                    Rules     |-> <<[Matches     |-> <<MatchGood>>,
                                     Filters     |-> <<FilterEnv>>,
                                     BackendRefs |-> <<RefA, RefB>>]>>]]

-----------------------------------------------------------------------------
(* TranslateGatewayHTTPRouteV1Alpha2, one step at a time *)

Rules == httpRoute.Spec.Rules

Rule == Rules[i + 1]

\* the entry of a translator that keeps its context in a field and goes on
\* with the one the call before it filled
EnterKeepingContext(route) ==
    /\ httpRoute' = route
    /\ calls' = Append(calls, route)
    /\ hosts' = CollectHosts(route.Spec.Hostnames)
    /\ i' = 0
    /\ trace' = <<>>
    /\ pc' = "rules"
    /\ UNCHANGED <<failing, ctx, j, ruleUpstreams, weightedUpstreams, matches,
                   plugins, results, arg, out>>

\* The entry of the function, up to the head of the rule loop: it makes the
\* context and the hosts and starts the loop.  The locals of the loop body
\* are declared further down; here they keep whatever they held.
Enter(route) ==
    /\ httpRoute' = route
    /\ calls' = Append(calls, route)
    /\ ctx' = DefaultEmptyTranslateContext
    /\ hosts' = CollectHosts(route.Spec.Hostnames)
    /\ i' = 0
    /\ trace' = <<>>
    /\ pc' = "rules"
    /\ UNCHANGED <<failing, j, ruleUpstreams, weightedUpstreams, matches,
                   plugins, results, arg, out>>

\* the translator is called
Call ==
    /\ pc = "idle"
    /\ Enter(httpRoute)

\* the translator is called on another HTTPRoute after the first call
CallOther ==
    /\ pc = "returned"
    /\ Len(calls) = 1
    /\ Enter(OtherRoute)

\* the translator is called again on the HTTPRoute of the first call, right
\* after it or after the call on the other HTTPRoute
Recall ==
    /\ pc = "returned"
    /\ \/ Len(calls) = 1
       \/ Len(calls) = 2 /\ calls[2] = OtherRoute
    /\ Enter(calls[1])

\* for i, rule := range rules: the head of the loop body
RuleHead ==
    /\ pc = "rules"
    /\ i < Len(Rules)
    /\ IF Len(Rule.BackendRefs) = 0
       THEN /\ i' = i + 1
            /\ UNCHANGED <<pc, j, ruleUpstreams, weightedUpstreams>>
       ELSE /\ ruleUpstreams' = <<>>
            /\ weightedUpstreams' = <<>>
            /\ j' = 0
            /\ pc' = "backends"
            /\ UNCHANGED i
    /\ UNCHANGED <<httpRoute, failing, calls, ctx, hosts, matches, plugins, trace,
                   results, arg, out>>

\* for j, backend := range backends: one backend reference
BackendStep ==
    /\ pc = "backends"
    /\ j < Len(Rule.BackendRefs)
    /\ LET backend == Rule.BackendRefs[j + 1]
           kind    == BackendKind(backend)
           ns      == BackendNamespace(backend)
       IN  IF kind # Runes("service") \/ IsNil(backend.Port)
           THEN /\ j' = j + 1
                /\ UNCHANGED <<pc, ctx, ruleUpstreams, weightedUpstreams, trace,
                               results>>
           ELSE LET r == TranslateService(ns, backend.Name, "", Deref(backend.Port))
                IN  /\ trace' = Append(trace, [op |-> "TranslateService",
                                               i |-> i, j |-> j])
                    /\ IF r.err # ""
                       THEN /\ results' = Append(results,
                                    ReturnError(r.err,
                                        "failed to translate Rules[" \o ToString(i)
                                        \o "].BackendRefs[" \o ToString(j) \o "]"))
                            /\ pc' = "returned"
                            /\ UNCHANGED <<ctx, j, ruleUpstreams, weightedUpstreams>>
                       ELSE LET ups == LabelledUpstream(Deref(r.ups), ns, backend)
                            IN  /\ ctx' = AddUpstream(ctx, ups)
                                /\ ruleUpstreams' = Append(ruleUpstreams, ups)
                                /\ weightedUpstreams' =
                                       Append(weightedUpstreams,
                                              WeightedUpstream(ups, backend))
                                /\ j' = j + 1
                                /\ UNCHANGED <<pc, results>>
    /\ UNCHANGED <<httpRoute, failing, calls, hosts, i, matches, plugins, arg, out>>

\* after the backend loop: give the rule up, or default its matches and
\* compile its filters
BackendsDone ==
    /\ pc = "backends"
    /\ j = Len(Rule.BackendRefs)
    /\ IF AllBackendsFailed(ruleUpstreams)
       THEN /\ i' = i + 1
            /\ pc' = "rules"
            /\ UNCHANGED <<j, matches, plugins>>
       ELSE /\ matches' = MatchesOf(Rule)
            /\ plugins' = generatePluginsFromHTTPRouteFilter(Rule.Filters)
            /\ j' = 0
            /\ pc' = "matches"
            /\ UNCHANGED i
    /\ UNCHANGED <<httpRoute, failing, calls, ctx, hosts, ruleUpstreams,
                   weightedUpstreams, trace, results, arg, out>>

\* for j, match := range matches: one match, and the end of the rule after
\* the last one.  The routes of a rule share one plugin map; the entry the
\* binding writes into it is the same for each of them.
MatchStep ==
    /\ pc = "matches"
    /\ j < Len(matches)
    /\ LET r == translateGatewayHTTPRouteMatch(matches[j + 1])
       IN  /\ trace' = Append(trace, [op |-> "translateGatewayHTTPRouteMatch",
                                      i |-> i, j |-> j])
           /\ IF r.err # ""
              THEN /\ results' = Append(results,
                           ReturnError(r.err,
                               "failed to translate Rules[" \o ToString(i)
                               \o "].Matches[" \o ToString(j) \o "]"))
                   /\ pc' = "returned"
                   /\ UNCHANGED <<ctx, i, j, plugins>>
              ELSE LET name  == ComposeRouteName(httpRoute.Namespace, httpRoute.Name,
                                    ToString(i) \o "-" \o ToString(j))
                       route == BindUpstream(
                                    [Deref(r.route) EXCEPT !.ID = GenID(name),
                                                           !.Hosts = hosts,
                                                           !.Plugins = plugins],
                                    ruleUpstreams, weightedUpstreams)
                   IN  /\ plugins' = route.Plugins
                       /\ ctx' = AddRoute(ctx, route)
                       /\ IF j + 1 < Len(matches)
                          THEN j' = j + 1 /\ UNCHANGED <<pc, i>>
                          ELSE j' = j + 1 /\ i' = i + 1 /\ pc' = "rules"
                       /\ UNCHANGED results
    /\ UNCHANGED <<httpRoute, failing, calls, hosts, ruleUpstreams, weightedUpstreams,
                   matches, arg, out>>

\* return ctx, nil
Return ==
    /\ pc = "rules"
    /\ i = Len(Rules)
    /\ results' = Append(results, ReturnContext)
    /\ pc' = "returned"
    /\ UNCHANGED <<httpRoute, failing, calls, ctx, hosts, i, j, ruleUpstreams,
                   weightedUpstreams, matches, plugins, trace, arg, out>>

Idle ==
    /\ pc = "idle"
    /\ ctx = DefaultEmptyTranslateContext
    /\ hosts = <<>>
    /\ i = 0
    /\ j = 0
    /\ ruleUpstreams = <<>>
    /\ weightedUpstreams = <<>>
    /\ matches = <<>>
    /\ plugins = EmptyMap
    /\ trace = <<>>
    /\ calls = <<>>
    /\ results = <<>>

Init ==
    /\ httpRoute \in HTTPRouteChoices
    /\ failing \in FailingChoices
    /\ Idle
    /\ arg = Nil
    /\ out = Nil

Next == Call \/ RuleHead \/ BackendStep \/ BackendsDone \/ MatchStep \/ Return

Spec == Init /\ [][Next]_vars

NextRecall ==
    \/ Call \/ CallOther \/ Recall
    \/ RuleHead \/ BackendStep \/ BackendsDone \/ MatchStep \/ Return

SpecRecall == Init /\ [][NextRecall]_vars

-----------------------------------------------------------------------------
(* The match compiler and the filter compiler, each run on its own *)

PathChoices ==
    {Nil,
     Some([Type |-> "Exact", Value |-> "/a"]),
     Some([Type |-> "PathPrefix", Value |-> "/a"]),
     Some([Type |-> "RegularExpression", Value |-> "/a.*"]),
     Some([Type |-> "ImplementationSpecific", Value |-> "/a"])}

HeaderChoices ==
    {[Type |-> "Exact", Name |-> Runes("X-Foo"), Value |-> "bar"],
     [Type |-> "RegularExpression", Name |-> Runes("Accept-Language"),
      Value |-> "en.*"],
     [Type |-> "ImplementationSpecific", Name |-> Runes("X-Foo"), Value |-> "baz"]}

\* the second name is U+03A9 (Greek capital omega) followed by "MEGA-q"
QueryChoices ==
    {[Type |-> "Exact", Name |-> Runes("Id"), Value |-> "7"],
     [Type |-> "RegularExpression", Name |-> <<937>> \o Runes("MEGA-q"),
      Value |-> ".+"],
     [Type |-> "ImplementationSpecific", Name |-> Runes("Id"), Value |-> "8"]}

MatchInputs ==
    {[Path |-> p, Headers |-> h, QueryParams |-> q, Method |-> m] :
        p \in PathChoices,
        h \in SeqsUpTo(HeaderChoices, MaxMatchers),
        q \in SeqsUpTo(QueryChoices, MaxMatchers),
        m \in {Nil, Some("GET")}}

AddChoices ==
    {<<>>,
     <<[Name |-> "h1", Value |-> "a1"]>>,
     <<[Name |-> "h2", Value |-> "a2"]>>,
     <<[Name |-> "h1", Value |-> "a1"], [Name |-> "h1", Value |-> "a3"]>>}

SetChoices ==
    {<<>>,
     <<[Name |-> "h1", Value |-> "s1"]>>,
     <<[Name |-> "h2", Value |-> "s2"]>>,
     <<[Name |-> "h2", Value |-> "s2"], [Name |-> "h2", Value |-> "s3"]>>}

RemoveChoices == {<<>>, <<"h1">>, <<"h3">>}

RedirectChoices ==
    {[StatusCode |-> Nil, Hostname |-> Nil, Scheme |-> Nil, Port |-> Nil],
     [StatusCode |-> Nil, Hostname |-> Nil, Scheme |-> Nil, Port |-> Some(8443)],
     [StatusCode |-> Some(301), Hostname |-> Some("example.com"),
      Scheme |-> Some("https"), Port |-> Some(8443)]}

FilterChoices ==
    {[Type |-> "RequestHeaderModifier",
      RequestHeaderModifier |-> Some([Add |-> a, Set |-> s, Remove |-> r]),
      RequestRedirect |-> Nil] :
        a \in AddChoices, s \in SetChoices, r \in RemoveChoices}
    \cup
    {[Type |-> "RequestRedirect", RequestHeaderModifier |-> Nil,
      RequestRedirect |-> Some(r)] : r \in RedirectChoices}
    \cup
    {[Type |-> t, RequestHeaderModifier |-> Nil, RequestRedirect |-> Nil] :
        t \in {"RequestHeaderModifier", "RequestRedirect", "RequestMirror",
               "ExtensionRef"}}

FilterInputs == SeqsUpTo(FilterChoices, MaxFilters)

InitMatch ==
    /\ httpRoute = HTTPRouteOf(<<>>)
    /\ failing = {}
    /\ Idle
    /\ arg \in {Some(m) : m \in MatchInputs}
    /\ out = Nil

\* translateGatewayHTTPRouteMatch(&match)
CompileMatch ==
    /\ pc = "idle"
    /\ out' = Some(translateGatewayHTTPRouteMatch(Deref(arg)))
    /\ pc' = "compiled"
    /\ UNCHANGED <<httpRoute, failing, calls, ctx, hosts, i, j, ruleUpstreams,
                   weightedUpstreams, matches, plugins, trace, results, arg>>

SpecMatch == InitMatch /\ [][CompileMatch]_vars

InitFilter ==
    /\ httpRoute = HTTPRouteOf(<<>>)
    /\ failing = {}
    /\ Idle
    /\ arg \in {Some(f) : f \in FilterInputs}
    /\ out = Nil

\* t.generatePluginsFromHTTPRouteFilter(rule.Filters)
CompileFilters ==
    /\ pc = "idle"
    /\ out' = Some(generatePluginsFromHTTPRouteFilter(Deref(arg)))
    /\ pc' = "filtered"
    /\ UNCHANGED <<httpRoute, failing, calls, ctx, hosts, i, j, ruleUpstreams,
                   weightedUpstreams, matches, plugins, trace, results, arg>>

SpecFilter == InitFilter /\ [][CompileFilters]_vars

-----------------------------------------------------------------------------
(* What the claims speak of, read off the HTTPRoute and not off the run *)

Returned == pc = "returned"

Ret == results[Len(results)]

Succeeded == Returned /\ Ret.err = ""

RetCtx == Deref(Ret.ctx)

RuleIndices == 0..(Len(Rules) - 1)

\* a backend reference the translator passes over
SkippedRef(b) ==
    \/ ~IsNil(b.Kind) /\ ToLower(Deref(b.Kind)) # Runes("service")
    \/ IsNil(b.Port)

\* the references of rule ri that go to the resolver, in declaration order
UsableRefs(ri) == SelectSeq(Rules[ri + 1].BackendRefs, LAMBDA b : ~SkippedRef(b))

RefNamespace(b) ==
    IF IsNil(b.Namespace) THEN httpRoute.Namespace ELSE Deref(b.Namespace)

RefUpstreamID(b) ==
    GenID(ComposeUpstreamName(RefNamespace(b), b.Name, "", Deref(b.Port),
                              "endpoint"))

RouteID(ri, mj) ==
    GenID(ComposeRouteName(httpRoute.Namespace, httpRoute.Name,
                           ToString(ri) \o "-" \o ToString(mj)))

MatchIndices == 0..(MaxRefs + 1)

\* the routes of a context that stem from rule ri
RoutesOfRule(c, ri) ==
    {k \in DOMAIN c.Routes : \E mj \in MatchIndices : c.Routes[k].ID = RouteID(ri, mj)}

FromRule(route, ri) == \E mj \in MatchIndices : route.ID = RouteID(ri, mj)

\* a match with a path, header or query match type the compiler does not know
BadMatch(m) ==
    \/ ~IsNil(m.Path)
         /\ Deref(m.Path).Type \notin {"Exact", "PathPrefix", "RegularExpression"}
    \/ \E k \in DOMAIN m.Headers :
         m.Headers[k].Type \notin {"Exact", "RegularExpression"}
    \/ \E k \in DOMAIN m.QueryParams :
         m.QueryParams[k].Type \notin {"Exact", "RegularExpression"}

HasBadMatch(ri) == \E k \in DOMAIN Rules[ri + 1].Matches : BadMatch(Rules[ri + 1].Matches[k])

HasFailingRef(ri) ==
    \E k \in DOMAIN UsableRefs(ri) : UsableRefs(ri)[k].Name \in failing

\* the number of routes rule ri stands for
NumMatches(ri) ==
    IF Len(Rules[ri + 1].Matches) = 0 THEN 1 ELSE Len(Rules[ri + 1].Matches)

-----------------------------------------------------------------------------
(* C1 *)

\* C1: in a returned context every Route stems from a rule with at least one
\* resolved backend reference; a rule whose references are all skipped gives
\* no Route and no Upstream and does not fail the call; every rule with a
\* resolved reference gives all its Routes.
C1_RoutesOnlyFromResolvedRules ==
    /\ Succeeded =>
         /\ \A k \in DOMAIN RetCtx.Routes :
              \E ri \in RuleIndices :
                 FromRule(RetCtx.Routes[k], ri) /\ Len(UsableRefs(ri)) >= 1
         /\ \A ri \in RuleIndices :
              Len(UsableRefs(ri)) = 0 => RoutesOfRule(RetCtx, ri) = {}
         /\ {RetCtx.Upstreams[k].ID : k \in DOMAIN RetCtx.Upstreams}
              = UNION {{RefUpstreamID(UsableRefs(ri)[k]) : k \in DOMAIN UsableRefs(ri)} :
                       ri \in RuleIndices}
         /\ \A ri \in RuleIndices :
              Len(UsableRefs(ri)) >= 1 =>
                 \A mj \in 0..(NumMatches(ri) - 1) :
                    \E k \in DOMAIN RetCtx.Routes : RetCtx.Routes[k].ID = RouteID(ri, mj)
    /\ (Returned /\ \A ri \in RuleIndices :
                       Len(UsableRefs(ri)) >= 1 => ~HasFailingRef(ri) /\ ~HasBadMatch(ri))
         => Ret.err = ""

\* C1 witness: a call succeeded on an object with a rule whose references are
\* all skipped (one of them for its missing port) beside a rule that gave a Route.
C1_Witness ==
    /\ Succeeded
    /\ Len(RetCtx.Routes) >= 1
    /\ \E ri \in RuleIndices :
         /\ Len(UsableRefs(ri)) = 0
         /\ RefNoPort \in Range(Rules[ri + 1].BackendRefs)

-----------------------------------------------------------------------------
(* C2 *)

HasTrafficSplit(route) == HasKey(route.Plugins, "traffic-split")

\* C2: every Route of a returned context has a direct upstream identifier and
\* no traffic-split entry, exactly when its rule has one resolved reference, or
\* a traffic-split entry and no direct identifier, exactly when it has more.
C2_OneUpstreamBinding ==
    Succeeded =>
      \A k \in DOMAIN RetCtx.Routes :
         \A ri \in RuleIndices :
            FromRule(RetCtx.Routes[k], ri) =>
               LET route == RetCtx.Routes[k]
                   n     == Len(UsableRefs(ri))
               IN  \/ n = 1 /\ route.UpstreamId # "" /\ ~HasTrafficSplit(route)
                   \/ n > 1 /\ route.UpstreamId = "" /\ HasTrafficSplit(route)

\* C2 witness: a returned Route splits traffic over two references that
\* resolve to the same upstream, beside a plugin that came from a filter.
C2_Witness ==
    /\ Succeeded
    /\ \E k \in DOMAIN RetCtx.Routes :
         LET route == RetCtx.Routes[k]
         IN  /\ HasTrafficSplit(route)
             /\ HasKey(route.Plugins, "proxy-rewrite")
             /\ LET w == route.Plugins["traffic-split"].Rules[1].WeightedUpstreams
                IN  Len(w) = 2 /\ w[1].UpstreamID = w[2].UpstreamID

-----------------------------------------------------------------------------
(* C3 *)

\* C3 as stated: a match of any rule with an unknown match type makes the
\* call return an error and no context.
C3_AnyBadMatchAborts ==
    (Returned /\ \E ri \in RuleIndices : HasBadMatch(ri))
       => Ret.err # "" /\ IsNil(Ret.ctx)

\* C3 amended: a match with an unknown match type, in a rule that has at least
\* one backend reference of kind service with a port, makes the call return an
\* error and no context, whatever the other rules are.
C3_BadMatchOfLiveRuleAborts ==
    (Returned /\ \E ri \in RuleIndices : HasBadMatch(ri) /\ Len(UsableRefs(ri)) >= 1)
       => Ret.err # "" /\ IsNil(Ret.ctx)

\* C3 witness: the call failed on a bad match of the second rule after the
\* first rule had put a Route into the context.
C3_Witness ==
    /\ Returned
    /\ Ret.err # ""
    /\ Len(ctx.Routes) >= 1
    /\ trace[Len(trace)].op = "translateGatewayHTTPRouteMatch"
    /\ trace[Len(trace)].i = 1
    /\ HasBadMatch(1)
    /\ ~HasBadMatch(0)

-----------------------------------------------------------------------------
(* C4 *)

RefAt(e) == Rules[e.i + 1].BackendRefs[e.j + 1]

\* C4: the resolver is never called for a skipped reference; when it fails
\* the call has returned an error and no context, and no resolver call or
\* match compilation follows the failed call.
C4_ResolverFailureAborts ==
    \A k \in DOMAIN trace :
       trace[k].op = "TranslateService" =>
          /\ ~SkippedRef(RefAt(trace[k]))
          /\ RefAt(trace[k]).Name \in failing =>
                /\ k = Len(trace)
                /\ Returned
                /\ Ret.err # ""
                /\ IsNil(Ret.ctx)

\* C4 witness: the resolver failed in the second rule, after a skipped
\* reference, when the context already held a Route and an Upstream.
C4_Witness ==
    /\ Returned
    /\ trace # <<>>
    /\ trace[Len(trace)].op = "TranslateService"
    /\ trace[Len(trace)].i = 1
    /\ trace[Len(trace)].j = 1
    /\ SkippedRef(Rules[2].BackendRefs[1])
    /\ RefAt(trace[Len(trace)]).Name \in failing
    /\ Len(ctx.Routes) >= 1
    /\ Len(ctx.Upstreams) >= 1

-----------------------------------------------------------------------------
(* C5 *)

\* C5: every later call on the HTTPRoute of the first call, with the resolver
\* answering the same way, returns what the first call returned (the same
\* error, or the same Routes and Upstreams), whether or not the translator
\* has translated another HTTPRoute in between.
C5_LaterCallReturnsTheSame ==
    \A k \in DOMAIN results : calls[k] = calls[1] => results[k] = results[1]

\* C5 witness: the first call returned two Routes and an Upstream, the call
\* on the other HTTPRoute returned a Route, and the third call, on the first
\* HTTPRoute again, has returned with success.
C5_Witness ==
    /\ Len(results) = 3
    /\ calls[2] = OtherRoute
    /\ calls[3] = calls[1]
    /\ results[1].err = ""
    /\ Len(Deref(results[1].ctx).Routes) >= 2
    /\ Len(Deref(results[1].ctx).Upstreams) >= 1
    /\ results[2].err = ""
    /\ Len(Deref(results[2].ctx).Routes) >= 1
    /\ results[3].err = ""

-----------------------------------------------------------------------------
(* C6 *)

ExpectedWeighted(ri) ==
    [k \in 1..Len(UsableRefs(ri)) |->
        [UpstreamID |-> RefUpstreamID(UsableRefs(ri)[k]),
         Weight     |-> IF IsNil(UsableRefs(ri)[k].Weight) THEN 1
                        ELSE Deref(UsableRefs(ri)[k].Weight)]]

\* C6: each Route of a rule with more than one resolved reference carries a
\* traffic-split plugin with one split rule, whose list has one entry per
\* resolved reference in declaration order, with the weight given or 1.
C6_WeightedListPerResolvedRef ==
    Succeeded =>
      \A k \in DOMAIN RetCtx.Routes :
         \A ri \in RuleIndices :
            (FromRule(RetCtx.Routes[k], ri) /\ Len(UsableRefs(ri)) > 1) =>
               /\ HasTrafficSplit(RetCtx.Routes[k])
               /\ Len(RetCtx.Routes[k].Plugins["traffic-split"].Rules) = 1
               /\ RetCtx.Routes[k].Plugins["traffic-split"].Rules[1].WeightedUpstreams
                    = ExpectedWeighted(ri)

\* C6 witness: a returned Route splits with weights 1 (defaulted) and 3, for
\* a rule that also holds a skipped reference between the two.
C6_Witness ==
    /\ Succeeded
    /\ Len(Rules) >= 1
    /\ Rules[1].BackendRefs = <<RefA, RefPod, RefB>>
    /\ \E k \in DOMAIN RetCtx.Routes :
         /\ HasTrafficSplit(RetCtx.Routes[k])
         /\ LET w == RetCtx.Routes[k].Plugins["traffic-split"].Rules[1].WeightedUpstreams
            IN  Len(w) = 2 /\ w[1].Weight = 1 /\ w[2].Weight = 3

-----------------------------------------------------------------------------
(* C7 *)

\* C7: a rule without matches and with a resolved reference gives one Route,
\* with URI "/*", no conditions, no methods and the hostnames as hosts, bound
\* directly when the rule has a single valid reference; a rule with n >= 1
\* matches gives n Routes.
C7_DefaultMatchAndRouteCount ==
    Succeeded =>
      \A ri \in RuleIndices :
         Len(UsableRefs(ri)) >= 1 =>
            /\ Cardinality(RoutesOfRule(RetCtx, ri)) = NumMatches(ri)
            /\ Len(Rules[ri + 1].Matches) = 0 =>
                 \A k \in RoutesOfRule(RetCtx, ri) :
                    LET route == RetCtx.Routes[k]
                    IN  /\ route.ID = RouteID(ri, 0)
                        /\ route.Uri = "/*"
                        /\ route.Vars = <<>>
                        /\ route.Methods = <<>>
                        /\ route.Hosts = httpRoute.Spec.Hostnames
                        /\ Len(UsableRefs(ri)) = 1 =>
                              /\ route.UpstreamId = RefUpstreamID(UsableRefs(ri)[1])
                              /\ ~HasTrafficSplit(route)

\* C7 witness: a call succeeded on a rule without matches and with a single
\* valid reference, followed by a rule with a match of its own.
C7_Witness ==
    /\ Succeeded
    /\ Len(Rules) = 2
    /\ Rules[1].Matches = <<>>
    /\ Len(UsableRefs(0)) = 1
    /\ Len(Rules[1].BackendRefs) = 1
    /\ Len(Rules[2].Matches) = 1
    /\ Len(RetCtx.Routes) = 2

-----------------------------------------------------------------------------
(* C10 *)

\* the upstream identifiers a route refers to
ReferredIDs(route) ==
    (IF route.UpstreamId # "" THEN {route.UpstreamId} ELSE {})
    \cup
    (IF HasTrafficSplit(route)
     THEN UNION {{r.WeightedUpstreams[k].UpstreamID : k \in DOMAIN r.WeightedUpstreams} :
                 r \in Range(route.Plugins["traffic-split"].Rules)}
     ELSE {})

\* C10: in a returned context every upstream identifier a Route refers to is
\* that of an Upstream of the context, every Upstream is referred to by a
\* Route, and no two Upstreams share an identifier.
C10_ReferentialIntegrity ==
    Succeeded =>
      LET referred == UNION {ReferredIDs(RetCtx.Routes[k]) : k \in DOMAIN RetCtx.Routes}
          held     == {RetCtx.Upstreams[k].ID : k \in DOMAIN RetCtx.Upstreams}
      IN  /\ referred \subseteq held
          /\ held \subseteq referred
          /\ \A k, l \in DOMAIN RetCtx.Upstreams :
                RetCtx.Upstreams[k].ID = RetCtx.Upstreams[l].ID => k = l

\* C10 witness: two rules refer to the same service and port, one of them
\* twice, and the returned context holds the one Upstream.
C10_Witness ==
    /\ Succeeded
    /\ Len(Rules) = 2
    /\ Rules[1].BackendRefs = <<RefA, RefA>>
    /\ Rules[2].BackendRefs = <<RefA>>
    /\ Len(RetCtx.Upstreams) = 1
    /\ Len(RetCtx.Routes) = 2

-----------------------------------------------------------------------------
(* C8 *)

\* the value of the last entry named h
LastValue(entries, h) ==
    LET last == CHOOSE k \in DOMAIN entries :
                   /\ entries[k].Name = h
                   /\ \A l \in DOMAIN entries : l > k => entries[l].Name # h
    IN  entries[last].Value

EntryNames(entries) == {entries[k].Name : k \in DOMAIN entries}

\* the headers mapping the claim describes for one header modifier
ExpectedHeaders(m) ==
    [h \in EntryNames(m.Add) \cup EntryNames(m.Set) \cup Range(m.Remove) |->
        IF h \in Range(m.Remove) THEN ""
        ELSE IF h \in EntryNames(m.Set) THEN LastValue(m.Set, h)
        ELSE LastValue(m.Add, h)]

IsHeaderModifier(f) ==
    f.Type = "RequestHeaderModifier" /\ ~IsNil(f.RequestHeaderModifier)

IsRedirect(f) == f.Type = "RequestRedirect" /\ ~IsNil(f.RequestRedirect)

\* C8: the proxy-rewrite plugin is there when the list holds a header
\* modifier, and its headers mapping is that of the (last) modifier: "" for a
\* header in Remove, else the Set value, else the Add value, and no other key;
\* filters of other kinds add no plugin.
C8_HeaderModifierMerge ==
    pc = "filtered" =>
      LET filters == Deref(arg)
          pl      == Deref(out)
          mods    == {k \in DOMAIN filters : IsHeaderModifier(filters[k])}
      IN  /\ HasKey(pl, "proxy-rewrite") <=> mods # {}
          /\ mods # {} =>
               LET last == CHOOSE k \in mods : \A l \in mods : l <= k
               IN  pl["proxy-rewrite"] =
                      [Headers |-> ExpectedHeaders(Deref(filters[last].RequestHeaderModifier))]
          /\ HasKey(pl, "redirect") <=> \E k \in DOMAIN filters : IsRedirect(filters[k])
          /\ DOMAIN pl \subseteq {"proxy-rewrite", "redirect"}

\* C8 witness: a modifier that adds h1 twice, sets h1 and removes h3 was
\* compiled beside a RequestMirror filter.
C8_Witness ==
    /\ pc = "filtered"
    /\ Len(Deref(arg)) = 2
    /\ Deref(arg)[1].Type = "RequestMirror"
    /\ IsHeaderModifier(Deref(arg)[2])
    /\ Len(Deref(Deref(arg)[2].RequestHeaderModifier).Add) = 2
    /\ Deref(Deref(arg)[2].RequestHeaderModifier).Set = <<[Name |-> "h1", Value |-> "s1"]>>
    /\ Deref(Deref(arg)[2].RequestHeaderModifier).Remove = <<"h3">>
    /\ Deref(out)["proxy-rewrite"].Headers = [h \in {"h1", "h3"} |->
                                                 IF h = "h1" THEN "s1" ELSE ""]

-----------------------------------------------------------------------------
(* C9 *)

\* the variable a header name, and a query parameter name, stand for
ExpectedHeaderVar ==
    [n \in {Runes("X-Foo"), Runes("Accept-Language")} |->
        IF n = Runes("X-Foo") THEN Runes("http_x_foo")
        ELSE Runes("http_accept_language")]

\* U+03C9 is the Greek small omega
ExpectedQueryVar ==
    [n \in {Runes("Id"), <<937>> \o Runes("MEGA-q")} |->
        IF n = Runes("Id") THEN Runes("arg_id")
        ELSE Runes("arg_") \o <<969>> \o Runes("mega-q")]

ExpectedOp(type) == IF type = "Exact" THEN "==" ELSE "~~"

\* C9: the conditions of a compiled match are the path regex condition when
\* the path is a RegularExpression, then one per header matcher, then one per
\* query matcher, each in declaration order; other paths add none.
C9_ConditionOrder ==
    (pc = "compiled" /\ Deref(out).err = "") =>
      LET m     == Deref(arg)
          route == Deref(Deref(out).route)
          np    == IF ~IsNil(m.Path) /\ Deref(m.Path).Type = "RegularExpression"
                   THEN 1 ELSE 0
          nh    == Len(m.Headers)
      IN  /\ Len(route.Vars) = np + nh + Len(m.QueryParams)
          /\ np = 1 => route.Vars[1] = <<Runes("uri"), "~~",
                                          Deref(m.Path).Value>>
          /\ \A k \in DOMAIN m.Headers :
                route.Vars[np + k] = <<ExpectedHeaderVar[m.Headers[k].Name],
                                       ExpectedOp(m.Headers[k].Type),
                                       m.Headers[k].Value>>
          /\ \A k \in DOMAIN m.QueryParams :
                route.Vars[np + nh + k] = <<ExpectedQueryVar[m.QueryParams[k].Name],
                                            ExpectedOp(m.QueryParams[k].Type),
                                            m.QueryParams[k].Value>>

\* C9 witness: a match with a regex path, two header matchers and two query
\* matchers was compiled into five conditions.
C9_Witness ==
    /\ pc = "compiled"
    /\ Deref(out).err = ""
    /\ ~IsNil(Deref(arg).Path)
    /\ Deref(Deref(arg).Path).Type = "RegularExpression"
    /\ Len(Deref(arg).Headers) = 2
    /\ Deref(arg).Headers[1] # Deref(arg).Headers[2]
    /\ Len(Deref(arg).QueryParams) = 2
    /\ Len(Deref(Deref(out).route).Vars) = 5

====
